---- MODULE Spec2Model ----
(***************************************************************************)
(* Dive log dashboard: the in-memory dataset (dives, tripsData, tripFiles, *)
(* divePhotos) of generate_dive_dashboard.py and the operations that       *)
(* mutate it.                                                              *)
(*                                                                         *)
(* Representation                                                          *)
(*   - a string is a sequence of one-character strings, so that            *)
(*     toLowerCase / replace / trim are computed and not assumed;          *)
(*     the character c-cedilla is written "c," and its capital "C,";       *)
(*   - a date 'YYYY-MM-DD' is the day number it denotes (1, 2, ...), the   *)
(*     empty date '' is 0: the ISO format orders dates as the day numbers; *)
(*   - a time 'HH:MM' is the minute of the day, the empty time '' is       *)
(*     NoTime;                                                             *)
(*   - a timestamp (File.lastModified, Date.getTime) is in milliseconds,   *)
(*     local time zone without daylight-saving shifts;                     *)
(*   - JavaScript arrays are 0-based, sequences here are 1-based: trip     *)
(*     index i of the code is index i+1 here.                              *)
(***************************************************************************)
EXTENDS Integers, Sequences, FiniteSets, TLC

VARIABLES
    dives,       \* const dives = [...]           (generate_dive_dashboard.py:1454)
    tripsData,   \* const tripsData = [...]       (generate_dive_dashboard.py:1455)
    tripFiles,   \* tripIdx -> [File, ...]        (generate_dive_dashboard.py:2295)
    divePhotos,  \* diveNumber -> [File, ...]     (generate_dive_dashboard.py:2297)
    ops,         \* handler runs since the dashboard was loaded
    last,        \* the call that has just returned (its inputs, its return
                 \* value, the dataset it started from), until the event
                 \* loop takes the next event
    alert,       \* the message the shell's alert() showed during that call
    call,        \* a function of the program applied on its own: its name,
                 \* its arguments and what it returned
    tripCollections, \* tripIdx -> [{ name, files }, ...]  (generate_dive_dashboard.py:2310)
    picCaptions, \* the keys "tripIdx_filename" that hold a caption (:2306)
    inj          \* injectAll of the shell page: its local variables (pics,
                 \* ti, fi, loaded, totalFiles), the callback that is due,
                 \* the files handled and the runs of finishPicInjection

vars == <<dives, tripsData, tripFiles, divePhotos, ops, last, alert, call,
          tripCollections, picCaptions, inj>>

----------------------------------------------------------------------------
(* Bounds of the model *)

MaxRows   == 4   \* distinct rows the database exports are made of
MaxBatch  == 2   \* rows in one database export
MaxOps    == 3   \* handler runs after the dashboard is loaded
MaxDives  == 3   \* dives in the dataset
MaxTrips  == 3   \* trips in the dataset
MaxGenNum == 4   \* the highest number generateDivesFromPhotos may reach

----------------------------------------------------------------------------
(* Strings *)

s_Unknown  == <<"U","n","k","n","o","w","n">>
s_Bonaire  == <<"B","o","n","a","i","r","e">>
s_Cozumel  == <<"C","o","z","u","m","e","l">>
s_Curaco   == <<"C","u","r","a","c","o">>
s_Curacao  == <<"C","u","r","a","c","a","o">>
s_CuraCao  == <<"C","u","r","a","c,","a","o">>     \* 'Curaçao'
s_curacao  == <<"c","u","r","a","c","a","o">>
s_curaCao  == <<"c","u","r","a","c,","a","o">>     \* 'curaçao'
s_curaco   == <<"c","u","r","a","c","o">>
s_Reef     == <<"R","e","e","f">>

\* String.prototype.toLowerCase on one character
LowerChar(c) ==
    CASE c = "A" -> "a" [] c = "B" -> "b" [] c = "C" -> "c" [] c = "D" -> "d"
      [] c = "E" -> "e" [] c = "F" -> "f" [] c = "G" -> "g" [] c = "H" -> "h"
      [] c = "I" -> "i" [] c = "J" -> "j" [] c = "K" -> "k" [] c = "L" -> "l"
      [] c = "M" -> "m" [] c = "N" -> "n" [] c = "O" -> "o" [] c = "P" -> "p"
      [] c = "Q" -> "q" [] c = "R" -> "r" [] c = "S" -> "s" [] c = "T" -> "t"
      [] c = "U" -> "u" [] c = "V" -> "v" [] c = "W" -> "w" [] c = "X" -> "x"
      [] c = "Y" -> "y" [] c = "Z" -> "z" [] c = "C," -> "c,"
      [] OTHER -> c

toLowerCase(s) == [i \in 1..Len(s) |-> LowerChar(s[i])]

\* s.replace(pat, rep) with a string pattern: the first occurrence only
replace(s, pat, rep) ==
    LET occ == {i \in 1..(Len(s) - Len(pat) + 1) :
                    SubSeq(s, i, i + Len(pat) - 1) = pat}
    IN  IF occ = {} THEN s
        ELSE LET i == CHOOSE j \in occ : \A k \in occ : j <= k
             IN  SubSeq(s, 1, i - 1) \o rep \o SubSeq(s, i + Len(pat), Len(s))

\* s.trim()
trim(s) ==
    LET ink == {i \in 1..Len(s) : s[i] # " "}
    IN  IF ink = {} THEN <<>>
        ELSE LET lo == CHOOSE j \in ink : \A k \in ink : j <= k
                 hi == CHOOSE j \in ink : \A k \in ink : j >= k
             IN  SubSeq(s, lo, hi)

\* normLoc(s): (s || '').toLowerCase().replace('curaçao','curacao')
\*                        .replace('curaco','curacao').trim()
normLoc(s) ==
    trim(replace(replace(toLowerCase(s), s_curaCao, s_curacao),
                 s_curaco, s_curacao))

\* the strings that occur as a dive location or a trip name
Strings == {<<>>, s_Unknown, s_Curaco, s_curaco, s_Curacao, s_CuraCao, s_Reef}

\* normLoc on those strings, computed once
NormLoc == [s \in Strings |-> normLoc(s)]

----------------------------------------------------------------------------
(* Small helpers on sequences and sets *)

Range(f) == {f[x] : x \in DOMAIN f}

Max(S) == CHOOSE x \in S : \A y \in S : y <= x
Min(S) == CHOOSE x \in S : \A y \in S : x <= y

\* the elements of seq at the indices in I, in index order
RECURSIVE Pick(_, _)
Pick(seq, I) ==
    IF I = {} THEN <<>>
    ELSE LET i == Min(I) IN <<seq[i]>> \o Pick(seq, I \ {i})

\* Array.prototype.filter
Filter(seq, Test(_)) == Pick(seq, {i \in DOMAIN seq : Test(seq[i])})

----------------------------------------------------------------------------
(* Dives of a database export (the result of extract_dive_data) *)

NoTime == -1                \* the empty time ''

MsPerMin == 60 * 1000
MsPerDay == 24 * 60 * MsPerMin

\* the new dive record as the dashboard holds it
Dive(n, day, minute, dur, loc, po, g) ==
    [number |-> n, date |-> day, time |-> minute, durationSec |-> dur,
     location |-> loc, photoOnly |-> po,
     maxDepthM |-> g.maxDepthM, maxDepthFt |-> g.maxDepthFt,
     startPSI |-> g.startPSI, endPSI |-> g.endPSI, gasUsed |-> g.gasUsed,
     o2Percent |-> g.o2Percent, avgTempC |-> g.avgTempC,
     avgDepthM |-> g.avgDepthM, endGF99 |-> g.endGF99]

\* what the dive computer measured on the dives of the exports: 18 m (59 ft)
\* deep, 3000 to 1000 psi of 32% nitrox, 28 C, 12 m on average, GF99 40
Measured ==
    [maxDepthM |-> 18, maxDepthFt |-> 59, startPSI |-> 3000, endPSI |-> 1000,
     gasUsed |-> 2000, o2Percent |-> 32, avgTempC |-> 28, avgDepthM |-> 12,
     endGF99 |-> 40]

\* dive n of a day starts at 09:00, 10:00, ... and lasts 50 minutes
ExportStart(n) == 540 + (n - 1) * 60
ExportDuration == 50 * 60

\* The rows the exports are made of.  Row 1 and row 2 are two dives of one
\* day at 'Curaco' (the misspelling both calculate_trip_stats and normLoc
\* rewrite); row 3 has the key of row 1 and no location; row 4 has the
\* number of row 1 on another day, at 'curaco' in lower case; later rows
\* go on with the next numbers at 'Curaco' on day 2.
ExportRow(k) ==
    CASE k = 1 -> Dive(1, 1, ExportStart(1), ExportDuration, s_Curaco, FALSE, Measured)
      [] k = 2 -> Dive(2, 1, ExportStart(2), ExportDuration, s_Curaco, FALSE, Measured)
      [] k = 3 -> Dive(1, 1, ExportStart(1), ExportDuration, <<>>, FALSE, Measured)
      [] k = 4 -> Dive(1, 2, ExportStart(1), ExportDuration, s_curaco, FALSE, Measured)
      [] OTHER -> Dive(k - 3, 2, ExportStart(k - 3), ExportDuration, s_Curaco, FALSE, Measured)

ExportDives == {ExportRow(k) : k \in 1..MaxRows}

\* ORDER BY d.DiveDate: rows come in ascending (date, time) order
DiveDateLeq(a, b) ==
    a.date < b.date \/ (a.date = b.date /\ a.time <= b.time)

Exports ==
    UNION {{b \in [1..k -> ExportDives] :
                \A i \in 1..(k - 1) : DiveDateLeq(b[i], b[i + 1])} :
           k \in 0..MaxBatch}

----------------------------------------------------------------------------
(* calculate_trip_stats *)

DefaultColor == "#94a3b8"

\* colors = {'Bonaire': ..., 'Cozumel': ..., 'Curacao': ...}; colors.get(loc, default)
PyColor(loc) ==
    CASE loc = s_Bonaire -> "#3b82f6"
      [] loc = s_Cozumel -> "#22c55e"
      [] loc = s_Curacao -> "#f97316"
      [] OTHER -> DefaultColor

\* loc = d['location'] if d['location'] else 'Unknown'; 'Curaco' -> 'Curacao'
GroupKey(d) ==
    LET loc == IF d.location # <<>> THEN d.location ELSE s_Unknown
    IN  IF loc = s_Curaco THEN s_Curacao ELSE loc

\* the keys of the locations dict, in insertion (first appearance) order
RECURSIVE GroupOrder(_, _)
GroupOrder(ds, seen) ==
    IF ds = <<>> THEN seen
    ELSE LET k == GroupKey(Head(ds))
         IN  GroupOrder(Tail(ds),
                        IF k \in Range(seen) THEN seen ELSE Append(seen, k))

\* locations[loc]['dives'] and locations[loc]['dates']
GroupDives(ds, loc) == Filter(ds, LAMBDA d : GroupKey(d) = loc)
GroupDates(ds, loc) == {d.date : d \in {x \in Range(GroupDives(ds, loc)) : x.date # 0}}

\* a trip as the dashboard reads it: name, dives, color
Trip(name, n, color) ==
    [dives |-> n, name |-> name, color |-> color]

\* the trip appended for one location (lines 134-151), with its '_endDate'
TripOf(ds, loc) ==
    [trip |-> Trip(IF loc # s_Curacao THEN loc ELSE s_CuraCao,
                   Len(GroupDives(ds, loc)),
                   PyColor(loc)),
     endDate |-> Max(GroupDates(ds, loc))]

\* the trips left in the order the locations were first met
SortByEndDate_Creation(ts) == ts

\* trips.sort(key=lambda t: t['_endDate']): a stable sort
RECURSIVE SortByEndDate(_)
SortByEndDate(ts) ==
    IF ts = <<>> THEN <<>>
    ELSE LET rest == SortByEndDate(SubSeq(ts, 1, Len(ts) - 1))
             t == ts[Len(ts)]
             before == {i \in DOMAIN rest : rest[i].endDate <= t.endDate}
             k == IF before = {} THEN 0 ELSE Max(before)
         IN  SubSeq(rest, 1, k) \o <<t>> \o SubSeq(rest, k + 1, Len(rest))

calculate_trip_stats(ds) ==
    LET order == GroupOrder(ds, <<>>)
        dated == Filter(order, LAMBDA loc : GroupDates(ds, loc) # {})
        sorted == SortByEndDate([i \in DOMAIN dated |-> TripOf(ds, dated[i])])
    IN  [i \in DOMAIN sorted |-> sorted[i].trip]

----------------------------------------------------------------------------
(* The record of the last operation *)

Snapshot == [dives |-> dives, tripsData |-> tripsData,
             tripFiles |-> tripFiles, divePhotos |-> divePhotos]

Op(name, idx, ret, nd, nt, pre, again) ==
    [idx |-> idx, ret |-> ret, pre |-> pre, again |-> again, op |-> name,
     newDives |-> nd, newTrips |-> nt]

NoMap == [x \in {} |-> <<>>]     \* the empty object {}

NoSnapshot == [dives |-> <<>>, tripsData |-> <<>>,
               tripFiles |-> NoMap, divePhotos |-> NoMap]

\* no function has been applied
NoCall == [fn |-> "none"]

\* no project is being loaded
NoInjection ==
    [pc |-> "none", pics |-> <<>>, ti |-> 0, fi |-> 0, loaded |-> 0,
     totalFiles |-> 0, handled |-> <<>>, finished |-> 0]

\* the state of the dashboard page and of the shell page
dashboard == <<dives, tripsData, tripFiles, divePhotos, ops, last, alert,
               tripCollections, picCaptions, inj>>

NoOp == Op("none", 0, 0, <<>>, <<>>, NoSnapshot, FALSE)

\* the event loop is idle: the next handler may run
Ready == last.op = "none" /\ ops < MaxOps

----------------------------------------------------------------------------
(* Loading a dashboard: generate_dashboard / generate_html *)

Init ==
    \E batch \in Exports :
        /\ dives = batch
        /\ tripsData = calculate_trip_stats(batch)
        /\ tripFiles = NoMap
        /\ divePhotos = NoMap
        /\ ops = 0
        /\ last = Op("load", 0, 0, <<>>, <<>>, NoSnapshot, FALSE)
        /\ alert = ""
        /\ call = NoCall
        /\ tripCollections = NoMap
        /\ picCaptions = {}
        /\ inj = NoInjection

\* the handler has returned and the event loop waits for the next event
Idle ==
    /\ ~Ready
    /\ last' = NoOp
    /\ alert' = ""
    /\ UNCHANGED <<call, tripCollections, picCaptions, inj>>
    /\ UNCHANGED <<dives, tripsData, tripFiles, divePhotos, ops>>

----------------------------------------------------------------------------
(* mergeNewDives *)

\* d.number + '|' + d.date
DiveKey(d) == <<d.number, d.date>>

\* ExistingKeys as it would be if the set were built empty
ExistingKeys_Empty(ds) == {}

\* new Set(dives.map(d => d.number + '|' + d.date))
ExistingKeys(ds) == {DiveKey(d) : d \in Range(ds)}

\* MergeDives as it would be without existingKeys.add(key)
RECURSIVE MergeDives_NoAdd(_, _, _)
MergeDives_NoAdd(ds, keys, nd) ==
    IF nd = <<>> THEN ds
    ELSE LET d == Head(nd)
         IN  IF <<d.number, d.date>> \notin keys
             THEN MergeDives_NoAdd(Append(ds, d), keys, Tail(nd))
             ELSE MergeDives_NoAdd(ds, keys, Tail(nd))

\* newDives.forEach: push the dives whose key is not yet known (lines 1585-1592)
RECURSIVE MergeDives(_, _, _)
MergeDives(ds, keys, nd) ==
    IF nd = <<>> THEN ds
    ELSE LET d == Head(nd)
         IN  IF DiveKey(d) \notin keys
             THEN MergeDives(Append(ds, d), keys \cup {DiveKey(d)}, Tail(nd))
             ELSE MergeDives(ds, keys, Tail(nd))

tripColors ==
    <<"#3b82f6", "#22c55e", "#f97316", "#a855f7", "#ef4444",
      "#eab308", "#ec4899", "#14b8a6", "#f59e0b", "#6366f1">>

\* tripColors[n % tripColors.length]
PaletteColor(n) == tripColors[(n % Len(tripColors)) + 1]

\* new Set(tripsData.map(t => normLoc(t.name)))
ExistingLocs(ts) == {NormLoc[t.name] : t \in Range(ts)}

\* MergeTrips as it would be without the existingLocs test
RECURSIVE MergeTrips_NoSkip(_, _, _)
MergeTrips_NoSkip(ts, locs, nt) ==
    IF nt = <<>> THEN ts
    ELSE LET t == Head(nt)
             c == IF t.color = "" \/ t.color = DefaultColor
                  THEN PaletteColor(Len(ts)) ELSE t.color
         IN  MergeTrips_NoSkip(Append(ts, [t EXCEPT !.color = c]), locs, Tail(nt))

\* newTrips.forEach: push the trips whose location is not yet known (lines 1597-1603)
RECURSIVE MergeTrips(_, _, _)
MergeTrips(ts, locs, nt) ==
    IF nt = <<>> THEN ts
    ELSE LET t == Head(nt)
             c == IF t.color = "" \/ t.color = DefaultColor
                  THEN PaletteColor(Len(ts)) ELSE t.color
         IN  IF NormLoc[t.name] \notin locs
             THEN MergeTrips(Append(ts, [t EXCEPT !.color = c]),
                             locs \cup {NormLoc[t.name]}, Tail(nt))
             ELSE MergeTrips(ts, locs, Tail(nt))

\* the body of mergeNewDives on the current dataset
mergeNewDives(nd, nt) ==
    LET ds == MergeDives(dives, ExistingKeys(dives), nd)
        added == Len(ds) - Len(dives)
        ts == IF added = 0 THEN tripsData
              ELSE MergeTrips(tripsData, ExistingLocs(tripsData), nt)
    IN  /\ Ready
        /\ Len(ds) <= MaxDives
        /\ Len(ts) <= MaxTrips
        /\ dives' = ds
        /\ tripsData' = ts
        /\ UNCHANGED <<tripFiles, divePhotos>>
        /\ ops' = ops + 1
        /\ last' = Op("merge", 0, added, nd, nt, Snapshot, FALSE)

\* doImport into a loaded dashboard: extract_dives_json, then mergeNewDives
NoNewDives == "No new dives found to import."

\* doImport as it would be without the alert
doImport_Silent(nd, nt) ==
    /\ mergeNewDives(nd, nt)
    /\ alert' = ""
    /\ UNCHANGED <<call, tripCollections, picCaptions, inj>>

\* doImport on a loaded dashboard: var added = win.mergeNewDives(r.dives,
\* r.trips); if (added === 0) alert(...)
doImport(nd, nt) ==
    /\ mergeNewDives(nd, nt)
    /\ alert' = IF last'.ret = 0 THEN NoNewDives ELSE ""
    /\ UNCHANGED <<call, tripCollections, picCaptions, inj>>

ImportExport ==
    \E batch \in Exports : doImport(batch, calculate_trip_stats(batch))

\* the import of a database that holds the dataset's own dives and trips
MergeSelf ==
    doImport(dives, tripsData)

----------------------------------------------------------------------------
(* Photo matching: buildDivePhotoMap, clearDivePhotosForTrip *)

BUFFER_MS == 30 * 60 * 1000

\* tripsData[tripIdx] ? tripsData[tripIdx].name : ''
TripName(ts, idx) == IF idx \in DOMAIN ts THEN ts[idx].name ELSE <<>>

\* the dives at the trip's location, in collection order
TripDives(ds, ts, idx) ==
    Filter(ds, LAMBDA d : NormLoc[d.location] = NormLoc[TripName(ts, idx)])

\* clearDivePhotosForTrip as it would be if it deleted nothing
clearDivePhotosForTrip_Keep(dp, ds, ts, idx) == dp

\* delete divePhotos[d.number] for every dive at the trip's location
clearDivePhotosForTrip(dp, ds, ts, idx) ==
    LET gone == {d.number : d \in Range(TripDives(ds, ts, idx))}
    IN  [n \in (DOMAIN dp) \ gone |-> dp[n]]

\* new Date(y, m-1, d, H, M).getTime()
parseLocalMs(date, time) == date * MsPerDay + time * MsPerMin

\* InWindow as it would be with the first minute of the window left out
InWindow_Open(d, stamp) ==
    /\ d.date # 0
    /\ d.time # NoTime
    /\ stamp > parseLocalMs(d.date, d.time) - BUFFER_MS
    /\ stamp <= parseLocalMs(d.date, d.time) + d.durationSec * 1000 + BUFFER_MS

\* the buffered window of dive d contains the timestamp (lines 3172-3176)
InWindow(d, stamp) ==
    /\ d.date # 0
    /\ d.time # NoTime
    /\ stamp >= parseLocalMs(d.date, d.time) - BUFFER_MS
    /\ stamp <= parseLocalMs(d.date, d.time) + d.durationSec * 1000 + BUFFER_MS

\* divePhotos[n].push(f), creating the list when it is missing
PushPhoto(dp, n, f) ==
    [k \in (DOMAIN dp) \cup {n} |->
        IF k = n THEN (IF n \in DOMAIN dp THEN Append(dp[n], f) ELSE <<f>>)
        ELSE dp[k]]

\* AssignFiles as it would be if the last matching dive won
RECURSIVE AssignFiles_Last(_, _, _)
AssignFiles_Last(dp, files, tds) ==
    IF files = <<>> THEN dp
    ELSE LET f == Head(files)
             hits == {i \in DOMAIN tds : InWindow(tds[i], f.lastModified)}
         IN  IF f.lastModified = 0 \/ hits = {}
             THEN AssignFiles_Last(dp, Tail(files), tds)
             ELSE AssignFiles_Last(PushPhoto(dp, tds[Max(hits)].number, f),
                                   Tail(files), tds)

\* files.forEach: each file goes to the first dive whose window holds it
RECURSIVE AssignFiles(_, _, _)
AssignFiles(dp, files, tds) ==
    IF files = <<>> THEN dp
    ELSE LET f == Head(files)
             hits == {i \in DOMAIN tds : InWindow(tds[i], f.lastModified)}
         IN  IF f.lastModified = 0 \/ hits = {}
             THEN AssignFiles(dp, Tail(files), tds)
             ELSE AssignFiles(PushPhoto(dp, tds[Min(hits)].number, f),
                              Tail(files), tds)

\* buildDivePhotoMap as it would be without the clearDivePhotosForTrip call
buildDivePhotoMap_NoClear(dp, ds, ts, tf, idx) ==
    LET tds == TripDives(ds, ts, idx)
    IN  IF idx \notin DOMAIN tf \/ tf[idx] = <<>> \/ tds = <<>>
        THEN dp
        ELSE AssignFiles(dp, tf[idx], tds)

buildDivePhotoMap(dp, ds, ts, tf, idx) ==
    LET cleared == clearDivePhotosForTrip(dp, ds, ts, idx)
        tds == TripDives(ds, ts, idx)
    IN  IF idx \notin DOMAIN tf \/ tf[idx] = <<>> \/ tds = <<>>
        THEN cleared
        ELSE AssignFiles(cleared, tf[idx], tds)

----------------------------------------------------------------------------
(* generateDivesFromPhotos *)

WINDOW_MS == 75 * 60 * 1000

\* .sort((a, b) => a.ts - b.ts): a stable sort by timestamp
RECURSIVE SortByTs(_)
SortByTs(fs) ==
    IF fs = <<>> THEN <<>>
    ELSE LET rest == SortByTs(SubSeq(fs, 1, Len(fs) - 1))
             f == fs[Len(fs)]
             before == {i \in DOMAIN rest : rest[i].lastModified <= f.lastModified}
             k == IF before = {} THEN 0 ELSE Max(before)
         IN  SubSeq(rest, 1, k) \o <<f>> \o SubSeq(rest, k + 1, Len(rest))

\* the files with a timestamp, ascending (lines 3060-3063)
Timed(files) == SortByTs(Filter(files, LAMBDA f : f.lastModified > 0))

\* Cluster as it would be with a window that slides with the last file
RECURSIVE Cluster_Sliding(_, _, _, _)
Cluster_Sliding(timed, groups, groupStart, group) ==
    IF timed = <<>> THEN Append(groups, group)
    ELSE LET t == Head(timed)
         IN  IF t.lastModified <= groupStart + WINDOW_MS
             THEN Cluster_Sliding(Tail(timed), groups, t.lastModified,
                                  Append(group, t))
             ELSE Cluster_Sliding(Tail(timed), Append(groups, group),
                                  t.lastModified, <<t>>)

\* the grouping loop (lines 3068-3080): groups closed so far, the open group
RECURSIVE Cluster(_, _, _, _)
Cluster(timed, groups, groupStart, group) ==
    IF timed = <<>> THEN Append(groups, group)
    ELSE LET t == Head(timed)
         IN  IF t.lastModified <= groupStart + WINDOW_MS
             THEN Cluster(Tail(timed), groups, groupStart, Append(group, t))
             ELSE Cluster(Tail(timed), Append(groups, group),
                          t.lastModified, <<t>>)

Groups(files) ==
    LET timed == Timed(files)
    IN  IF timed = <<>> THEN <<>>
        ELSE Cluster(Tail(timed), <<>>, timed[1].lastModified, <<timed[1]>>)

\* Math.round(x / 1000) for x >= 0
RoundDiv1000(x) == (x + 500) \div 1000

\* MaxNum as it would be if the dives were counted instead
MaxNum_Count(ds) == Len(ds)

\* dives.reduce((m, d) => Math.max(m, d.number), 0)
MaxNum(ds) == Max({0} \cup {d.number : d \in Range(ds)})

\* maxDepthM: 0, maxDepthFt: 0, startPSI: 0, ... endGF99: 0 (lines 3105-3115)
Unmeasured ==
    [maxDepthM |-> 0, maxDepthFt |-> 0, startPSI |-> 0, endPSI |-> 0,
     gasUsed |-> 0, o2Percent |-> 0, avgTempC |-> 0, avgDepthM |-> 0,
     endGF99 |-> 0]

\* PhotoDive as it would be if the dive carried measurements
PhotoDive_Measured(g, k, maxNum, location) ==
    LET startMs == g[1].lastModified
        endMs == g[Len(g)].lastModified
    IN  Dive(maxNum + k,
             startMs \div MsPerDay,
             (startMs % MsPerDay) \div MsPerMin,
             RoundDiv1000(endMs - startMs),
             location, TRUE, Measured)

\* PhotoDive as it would be if maxNum were incremented once, not per group
PhotoDive_OneNumber(g, k, maxNum, location) ==
    LET startMs == g[1].lastModified
        endMs == g[Len(g)].lastModified
    IN  Dive(maxNum + 1,
             startMs \div MsPerDay,
             (startMs % MsPerDay) \div MsPerMin,
             RoundDiv1000(endMs - startMs),
             location, TRUE, Unmeasured)

\* the dive pushed for group g, the k-th group (lines 3087-3117)
PhotoDive(g, k, maxNum, location) ==
    LET startMs == g[1].lastModified
        endMs == g[Len(g)].lastModified
    IN  Dive(maxNum + k,
             startMs \div MsPerDay,
             (startMs % MsPerDay) \div MsPerMin,
             RoundDiv1000(endMs - startMs),
             location, TRUE, Unmeasured)

\* the dataset after generateDivesFromPhotos(idx): dives, tripsData, divePhotos
generateDivesFromPhotos(dp, ds, ts, tf, idx) ==
    LET files == IF idx \in DOMAIN tf THEN tf[idx] ELSE <<>>
        groups == Groups(files)
        ds2 == ds \o [k \in DOMAIN groups |->
                        PhotoDive(groups[k], k, MaxNum(ds), TripName(ts, idx))]
        ts2 == [ts EXCEPT ![idx].dives = Len(groups)]
    IN  IF groups = <<>>
        THEN [dives |-> ds, tripsData |-> ts, divePhotos |-> dp]
        ELSE [dives |-> ds2, tripsData |-> ts2,
              divePhotos |-> buildDivePhotoMap(dp, ds2, ts2, tf, idx)]

----------------------------------------------------------------------------
(* Pictures of a trip: importSelected, removePictures *)

MaxFiles == 2    \* files in the photo folder the user picks

\* the k-th file of the folder: taken on day 1 at 09:40, 11:00, 12:20, ...
\* (09:40 lies in the buffered windows of the dives of 09:00 and of 10:00,
\* 11:00 in that of the dive of 10:00 only)
FolderFile(k) ==
    [name |-> k, lastModified |-> MsPerDay + (580 + (k - 1) * 80) * MsPerMin]

\* the selections importSelected can be left with: non-empty, sorted by name
Selections ==
    {Pick([k \in 1..MaxFiles |-> FolderFile(k)], I) :
        I \in (SUBSET (1..MaxFiles)) \ {{}}}

\* importSelected with picTripIdx = idx and filtered = files
importSelected(idx, files) ==
    LET tf == [k \in (DOMAIN tripFiles) \cup {idx} |->
                  IF k = idx THEN files ELSE tripFiles[k]]
        dp == buildDivePhotoMap(divePhotos, dives, tripsData, tf, idx)
        gen == generateDivesFromPhotos(dp, dives, tripsData, tf, idx)
        res == IF tripsData[idx].dives = 0 THEN gen
               ELSE [dives |-> dives, tripsData |-> tripsData,
                     divePhotos |-> dp]
    IN  /\ Ready
        /\ Len(res.dives) <= MaxDives
        /\ MaxNum(res.dives) <= MaxGenNum
        /\ tripFiles' = tf
        /\ dives' = res.dives
        /\ tripsData' = res.tripsData
        /\ divePhotos' = res.divePhotos
        /\ ops' = ops + 1
        /\ last' = Op("import", idx, 0, <<>>, <<>>, Snapshot, FALSE)
        /\ alert' = ""
        /\ UNCHANGED <<call, tripCollections, picCaptions, inj>>

\* addPictures(idx), then importSelected with picTripIdx = idx
ImportSelected ==
    \E idx \in DOMAIN tripsData, files \in Selections :
        importSelected(idx, files)

MaxFolders == 6    \* camera folders the user can pick

NoStamp == -1      \* a file without lastModified

\* a file of a camera folder, taken on day 1 at the minute of the day
CameraFile(name, minute) ==
    [name |-> name,
     lastModified |-> IF minute = NoStamp THEN 0
                      ELSE MsPerDay + minute * MsPerMin]

\* The camera folders, files in name order.  The dives of day 1 start at
\* 09:00 and 10:00 and last 50 minutes: their buffered windows are
\* 08:30-10:20 and 09:30-11:20.
\*   1: 08:25 (before the window), 08:30 (its first minute), no timestamp
\*   2: 11:21 (after the window), 11:20 (its last minute), 08:45
\*   3: 09:46, 08:30, 09:44: 74 and 76 minutes after the earliest file
\*   4: 09:45, 08:30: 75 minutes after the earliest file
\*   5: no timestamp at all
\*   6: a single file, 09:44, in both windows
CameraFolder(k) ==
    CASE k = 1 -> <<CameraFile(1, 505), CameraFile(2, 510), CameraFile(3, NoStamp)>>
      [] k = 2 -> <<CameraFile(1, 681), CameraFile(2, 680), CameraFile(3, 525)>>
      [] k = 3 -> <<CameraFile(1, 586), CameraFile(2, 510), CameraFile(3, 584)>>
      [] k = 4 -> <<CameraFile(1, 585), CameraFile(2, 510)>>
      [] k = 5 -> <<CameraFile(1, NoStamp)>>
      [] k = 6 -> <<CameraFile(1, 584)>>
      [] OTHER -> <<CameraFile(1, 510 + k)>>

\* addPictures(idx) on a camera folder, then importSelected of all its files
ImportCamera ==
    \E idx \in DOMAIN tripsData, k \in 1..MaxFolders :
        importSelected(idx, CameraFolder(k))

\* the 'remove all' link of a trip that shows pictures
RemovePictures ==
    \E idx \in DOMAIN tripFiles :
        /\ Ready
        /\ tripFiles[idx] # <<>>
        /\ tripFiles' = [k \in (DOMAIN tripFiles) \ {idx} |-> tripFiles[k]]
        /\ divePhotos' = clearDivePhotosForTrip(divePhotos, dives, tripsData, idx)
        /\ UNCHANGED <<dives, tripsData>>
        /\ ops' = ops + 1
        /\ last' = Op("remove", idx, 0, <<>>, <<>>, Snapshot, FALSE)
        /\ alert' = ""
        /\ tripCollections' = [k \in (DOMAIN tripCollections) \ {idx} |->
                                    tripCollections[k]]
        /\ UNCHANGED <<call, picCaptions, inj>>

\* the last call ended with buildDivePhotoMap(idx): importSelected does
\* (directly, or through generateDivesFromPhotos), and so does a rebuild
JustBuilt(idx) == last.op \in {"import", "build"} /\ last.idx = idx

\* buildDivePhotoMap(idx) run for a trip that has pictures, as closePicViewer
\* and finishPicInjection call it; it may follow a run for the same trip at once
RebuildDivePhotoMap ==
    \E idx \in DOMAIN tripFiles :
        /\ \/ Ready
           \/ JustBuilt(idx) /\ ops < MaxOps
        /\ divePhotos' = buildDivePhotoMap(divePhotos, dives, tripsData,
                                           tripFiles, idx)
        /\ UNCHANGED <<dives, tripsData, tripFiles>>
        /\ ops' = ops + 1
        /\ last' = Op("build", idx, 0, <<>>, <<>>, Snapshot, JustBuilt(idx))
        /\ alert' = ""
        /\ UNCHANGED <<call, tripCollections, picCaptions, inj>>

----------------------------------------------------------------------------
(* Trips: addManualTrip, editTripLocation, deleteTrip *)

\* names the user types for a new or a renamed trip
TripNames == {s_Curacao, s_Reef}

addManualTrip(name) ==
    /\ Ready
    /\ trim(name) # <<>>
    /\ Len(tripsData) < MaxTrips
    /\ tripsData' = Append(tripsData,
                           Trip(trim(name), 0, PaletteColor(Len(tripsData))))
    /\ UNCHANGED <<dives, tripFiles, divePhotos>>
    /\ ops' = ops + 1
    /\ last' = Op("add", Len(tripsData) + 1, 0, <<>>, <<>>, Snapshot, FALSE)
    /\ alert' = ""
    /\ UNCHANGED <<call, tripCollections, picCaptions, inj>>

AddManualTrip == \E name \in TripNames : addManualTrip(name)

editTripLocation(idx, newName) ==
    LET trip == tripsData[idx]
        oldLoc == NormLoc[trip.name]
        trimmed == trim(newName)
    IN  /\ Ready
        /\ trimmed # <<>>
        /\ trimmed # trip.name
        /\ dives' = [i \in DOMAIN dives |->
                        IF NormLoc[dives[i].location] = oldLoc
                        THEN [dives[i] EXCEPT !.location = trimmed]
                        ELSE dives[i]]
        /\ tripsData' = [tripsData EXCEPT ![idx].name = trimmed]
        /\ UNCHANGED <<tripFiles, divePhotos>>
        /\ ops' = ops + 1
        /\ last' = Op("edit", idx, 0, <<>>, <<>>, Snapshot, FALSE)
        /\ alert' = ""
        /\ UNCHANGED <<call, tripCollections, picCaptions, inj>>

EditTripLocation ==
    \E idx \in DOMAIN tripsData, newName \in TripNames :
        editTripLocation(idx, newName)

\* the reindexing of tripFiles after the splice (lines 2854-2874)
Reindex(tf, idx) ==
    [k \in {IF ki > idx THEN ki - 1 ELSE ki : ki \in DOMAIN tf} |->
        IF k >= idx /\ (k + 1) \in DOMAIN tf THEN tf[k + 1] ELSE tf[k]]

\* deleteTrip(idx), confirmed
deleteTrip(idx) ==
    LET tripLoc == NormLoc[tripsData[idx].name]
        hasFiles == idx \in DOMAIN tripFiles
        tf == [k \in (DOMAIN tripFiles) \ {idx} |-> tripFiles[k]]
    IN  /\ Ready
        /\ divePhotos' = IF hasFiles
                         THEN clearDivePhotosForTrip(divePhotos, dives, tripsData, idx)
                         ELSE divePhotos
        /\ dives' = Filter(dives, LAMBDA d : NormLoc[d.location] # tripLoc)
        /\ tripsData' = SubSeq(tripsData, 1, idx - 1)
                          \o SubSeq(tripsData, idx + 1, Len(tripsData))
        /\ tripFiles' = Reindex(tf, idx)
        /\ ops' = ops + 1
        /\ last' = Op("delete", idx, 0, <<>>, <<>>, Snapshot, FALSE)
        /\ alert' = ""
        /\ UNCHANGED <<call, tripCollections, picCaptions, inj>>

DeleteTrip == \E idx \in DOMAIN tripsData : deleteTrip(idx)

----------------------------------------------------------------------------

Next ==
    \/ Idle
    \/ ImportExport
    \/ MergeSelf
    \/ ImportSelected
    \/ RemovePictures
    \/ RebuildDivePhotoMap
    \/ AddManualTrip
    \/ EditTripLocation
    \/ DeleteTrip

Spec == Init /\ [][Next]_vars

\* the merge engine alone: a loaded dashboard and imports into it
NextMerge ==
    \/ Idle
    \/ ImportExport
    \/ MergeSelf

SpecMerge == Init /\ [][NextMerge]_vars

\* a loaded dashboard, its trips and their pictures, without further imports
\* and without trip deletion
NextPhotos ==
    \/ Idle
    \/ ImportSelected
    \/ RemovePictures
    \/ RebuildDivePhotoMap
    \/ AddManualTrip
    \/ EditTripLocation

SpecPhotos == Init /\ [][NextPhotos]_vars

\* the photo matcher and the dive generator on the camera folders
NextMatch ==
    \/ Idle
    \/ AddManualTrip
    \/ ImportCamera

SpecMatch == Init /\ [][NextMatch]_vars

----------------------------------------------------------------------------
(* Collections and captions of a trip's pictures *)

\* the name the user gives a collection
CollectionNames == {"Best"}

\* finishCollection with thumbTripIdx = idx, the selected thumbnails and the
\* name typed into the prompt
finishCollection(idx, selected, name) ==
    LET colls == IF idx \in DOMAIN tripCollections
                 THEN tripCollections[idx] ELSE <<>>
        exists == \E c \in DOMAIN colls : colls[c].name = name
    IN  /\ Ready
        /\ ~exists
        /\ tripCollections' =
              [k \in (DOMAIN tripCollections) \cup {idx} |->
                  IF k = idx
                  THEN Append(colls, [name |-> name, files |-> selected])
                  ELSE tripCollections[k]]
        /\ ops' = ops + 1
        /\ last' = Op("collect", idx, 0, <<>>, <<>>, Snapshot, FALSE)
        /\ alert' = ""
        /\ UNCHANGED <<dives, tripsData, tripFiles, divePhotos, call,
                       picCaptions, inj>>

FinishCollection ==
    \E idx \in DOMAIN tripFiles, name \in CollectionNames :
        \E I \in (SUBSET (DOMAIN tripFiles[idx])) \ {{}} :
            finishCollection(idx, Pick(tripFiles[idx], I), name)

\* onCaptionChange in the viewer of trip idx (picViewMode 'trip') on file k
onCaptionChange(idx, k) ==
    /\ Ready
    /\ picCaptions' = picCaptions \cup {<<idx, tripFiles[idx][k].name>>}
    /\ ops' = ops + 1
    /\ last' = Op("caption", idx, 0, <<>>, <<>>, Snapshot, FALSE)
    /\ alert' = ""
    /\ UNCHANGED <<dives, tripsData, tripFiles, divePhotos, call,
                   tripCollections, inj>>

OnCaptionChange ==
    \E idx \in DOMAIN tripFiles :
        \E k \in DOMAIN tripFiles[idx] : onCaptionChange(idx, k)

\* pictures, collections and captions of the trips, and the trips deleted
NextMedia ==
    \/ Idle
    \/ ImportSelected
    \/ FinishCollection
    \/ OnCaptionChange
    \/ RemovePictures
    \/ DeleteTrip

SpecMedia == Init /\ [][NextMedia]_vars

----------------------------------------------------------------------------

(* Loading the pictures of a project: injectAll, injectPic, finishPicInjection *)

MaxManifestTrips == 2   \* trips with pictures in the project file
MaxManifestFiles == 1   \* pictures of a trip in the project file

\* the k-th picture of a trip in the manifest: with a path or without
\* (path ''), the first with a caption
ManifestFile(k, path) ==
    [name |-> k, lastModified |-> FolderFile(k).lastModified, path |-> path,
     caption |-> (k = 1)]

ManifestFiles ==
    UNION {{[k \in 1..n |-> ManifestFile(k, paths[k])] : paths \in [1..n -> BOOLEAN]} :
           n \in 0..MaxManifestFiles}

\* r.pictures, as Object.keys(pics) walks it: trip indices ascending
Manifests ==
    UNION {{m \in [1..n -> [idx : 1..MaxManifestTrips, files : ManifestFiles]] :
                \A i \in 1..(n - 1) : m[i].idx < m[i + 1].idx} :
           n \in 1..MaxManifestTrips}

\* totalFiles += pics[idx].length
RECURSIVE TotalFiles(_)
TotalFiles(pics) ==
    IF pics = <<>> THEN 0 ELSE Len(Head(pics).files) + TotalFiles(Tail(pics))

\* injectAll(win, pics, ...): the counters are set and nextTrip() runs at
\* once: pics is not empty (hasPics), so nextFile is put on a timer
injectAll(pics) ==
    [pc |-> "nextFile", pics |-> pics, ti |-> 1, fi |-> 1, loaded |-> 0,
     totalFiles |-> TotalFiles(pics), handled |-> <<>>, finished |-> 0]

\* the picture nextFile is at
AtFile(j) == j.pics[j.ti].files[j.fi]

\* the picture left as it is, with no timer set for the next
Handled_Stalled(j) ==
    [j EXCEPT !.pc = "stalled"]

\* loaded++; fi++; setTimeout(nextFile, 5)
Handled(j) ==
    [j EXCEPT !.loaded = @ + 1, !.fi = @ + 1, !.pc = "nextFile",
              !.handled = Append(@, <<j.pics[j.ti].idx, AtFile(j).name>>)]

\* injectPic(tripIdx, name, lastModified, path, b64Data, caption): tripFiles
injectPic(tf, idx, p) ==
    [k \in (DOMAIN tf) \cup {idx} |->
        IF k = idx
        THEN Append(IF k \in DOMAIN tf THEN tf[k] ELSE <<>>,
                    [name |-> p.name, lastModified |-> p.lastModified])
        ELSE tf[k]]

\* Object.keys(tripFiles).forEach(idx => buildDivePhotoMap(parseInt(idx)))
RECURSIVE BuildAll(_, _)
BuildAll(dp, keys) ==
    IF keys = {} THEN dp
    ELSE BuildAll(buildDivePhotoMap(dp, dives, tripsData, tripFiles, Min(keys)),
                  keys \ {Min(keys)})

finishPicInjection == BuildAll(divePhotos, DOMAIN tripFiles)

\* the dashboard load_project generates from the project file: two dives of
\* one day at one location
InitProject == Init /\ dives = <<ExportRow(1), ExportRow(2)>>

\* doLoadProject has set the dashboard of the project and calls injectAll
InjectAll ==
    \E pics \in Manifests :
        /\ inj.pc = "none"
        /\ last.op = "load"
        /\ inj' = injectAll(pics)
        /\ UNCHANGED <<dives, tripsData, tripFiles, divePhotos, ops, last,
                       alert, call, tripCollections, picCaptions>>

\* the timer of nextFile fires
NextFile ==
    /\ inj.pc = "nextFile"
    /\ IF inj.fi > Len(inj.pics[inj.ti].files)
       THEN inj' = [inj EXCEPT !.ti = @ + 1, !.pc = "nextTrip"]
       ELSE IF AtFile(inj).path
       THEN inj' = [inj EXCEPT !.pc = "load_pic_file"]
       ELSE inj' = Handled(inj)
    /\ UNCHANGED <<dives, tripsData, tripFiles, divePhotos, ops, last,
                   alert, call, tripCollections, picCaptions>>

\* load_pic_file answers: the base64 of the file, or '' when it cannot be read
LoadPicFile ==
    \E b64 \in BOOLEAN :
        LET idx == inj.pics[inj.ti].idx
            p == AtFile(inj)
        IN  /\ inj.pc = "load_pic_file"
            /\ tripFiles' = IF b64 THEN injectPic(tripFiles, idx, p) ELSE tripFiles
            /\ picCaptions' = IF b64 /\ p.caption
                              THEN picCaptions \cup {<<idx, p.name>>}
                              ELSE picCaptions
            /\ inj' = Handled(inj)
            /\ UNCHANGED <<dives, tripsData, divePhotos, ops, last, alert,
                           call, tripCollections>>

\* the timer of nextTrip fires (the project files of the model hold no
\* collections: loadCollections({}) changes nothing)
NextTrip ==
    /\ inj.pc = "nextTrip"
    /\ IF inj.ti > Len(inj.pics)
       THEN /\ divePhotos' = finishPicInjection
            /\ inj' = [inj EXCEPT !.finished = @ + 1, !.pc = "done"]
       ELSE /\ inj' = [inj EXCEPT !.fi = 1, !.pc = "nextFile"]
            /\ UNCHANGED divePhotos
    /\ UNCHANGED <<dives, tripsData, tripFiles, ops, last, alert, call,
                   tripCollections, picCaptions>>

NextInject ==
    \/ InjectAll
    \/ NextFile
    \/ LoadPicFile
    \/ NextTrip

\* timers fire and load_pic_file always answers
SpecInject ==
    /\ InitProject
    /\ [][NextInject]_vars
    /\ WF_vars(NextFile)
    /\ WF_vars(LoadPicFile)
    /\ WF_vars(NextTrip)

----------------------------------------------------------------------------

(* extract_dive_data on the rows of a database *)

Null == -1              \* the number column is NULL
Bad == -2               \* the column holds text that is no number
NoClock == -1           \* DiveDate holds a date only: row[1][11:16] is ''
BadClock == -2          \* DiveDate holds five characters that are no HH:MM
NoBlob == "NULL"        \* the JSON column is NULL
BadBlob == "BAD"        \* the JSON column holds text that is no JSON

\* a row of dive_details: DiveDate is a day with a clock (a minute of the
\* day, NoClock or BadClock), day 0 when the column is NULL; Location is
\* empty when the column is NULL; the tank blob is unparsable (Bad) or holds
\* the two pressures of the first tank (0 when the key or the blob is missing)
Row(n, when, loc, depth, len, tank, calc) ==
    [DiveNumber |-> n, DiveDate |-> when, Location |-> loc, Depth |-> depth,
     DiveLengthTime |-> len, TankProfileData |-> tank,
     calculated_values_from_samples |-> calc]

At(day, clock) == [day |-> day, clock |-> clock]
Tank(startPSI, endPSI) == [StartPressurePSI |-> startPSI, EndPressurePSI |-> endPSI]

\* a row without fault: dive 1 of day 1 at 09:00, 18 m, 3000 s, 3000 to 1000 psi
GoodRow == Row(1, At(1, 540), s_Curaco, 18, 3000, Tank(3000, 1000), "{}")

\* the rows of the databases: the good row with one column replaced
RawRows ==
    {GoodRow}
    \cup {[GoodRow EXCEPT !.DiveNumber = v] : v \in {Null, Bad}}
    \cup {[GoodRow EXCEPT !.DiveDate = v] :
            v \in {At(0, NoClock), At(1, NoClock), At(1, BadClock), At(1, 1410)}}
    \cup {[GoodRow EXCEPT !.Location = v] : v \in {<<>>}}
    \cup {[GoodRow EXCEPT !.Depth = v] : v \in {Null, Bad}}
    \cup {[GoodRow EXCEPT !.DiveLengthTime = v] :
            v \in {Null, Bad, 30, 150, 3030, 3600}}
    \cup {[GoodRow EXCEPT !.TankProfileData = v] :
            v \in {Tank(0, 0), Tank(Bad, Bad), Tank(3000, 0), Tank(0, 1000),
                   Tank(1000, 3000)}}
    \cup {[GoodRow EXCEPT !.calculated_values_from_samples = v] :
            v \in {NoBlob, BadBlob}}

MaxRawBatch == 2    \* rows in a database

RawBatches == UNION {[1..k -> RawRows] : k \in 1..MaxRawBatch}

\* json.loads, int() and float() raise on text that does not parse
Raises(row) ==
    \/ row.calculated_values_from_samples = BadBlob   \* json.loads(row[7])
    \/ row.TankProfileData.StartPressurePSI = Bad     \* json.loads(row[6])
    \/ row.Depth = Bad                                \* float(row[4])
    \/ row.DiveLengthTime = Bad                       \* int(row[5])
    \/ row.DiveNumber = Bad                           \* int(row[0])

\* round(duration_sec / 60): Python rounds an exact half to the even integer
PyRound60(sec) ==
    LET q == sec \div 60
        r == sec % 60
    IN  IF r < 30 THEN q
        ELSE IF r > 30 THEN q + 1
        ELSE IF q % 2 = 0 THEN q ELSE q + 1

\* the dive of a row that raises nothing (lines 45-94)
RowDive(row) ==
    LET start_psi == row.TankProfileData.StartPressurePSI
        end_psi == row.TankProfileData.EndPressurePSI
        duration_sec == IF row.DiveLengthTime = Null THEN 0 ELSE row.DiveLengthTime
        start_time == IF row.DiveDate.clock = NoClock
                      THEN NoTime ELSE row.DiveDate.clock
        end_time == IF start_time = NoTime \/ duration_sec = 0
                       \/ start_time = BadClock
                    THEN NoTime
                    ELSE ((start_time * 60 + duration_sec) \div 60) % 1440
    IN  [number |-> IF row.DiveNumber = Null THEN 0 ELSE row.DiveNumber,
         date |-> row.DiveDate.day,
         time |-> start_time,
         durationSec |-> duration_sec,
         location |-> row.Location,
         maxDepthM |-> IF row.Depth = Null THEN 0 ELSE row.Depth,
         startPSI |-> start_psi,
         endPSI |-> end_psi,
         gasUsed |-> IF start_psi # 0 /\ end_psi # 0
                     THEN start_psi - end_psi ELSE 0,
         endTime |-> end_time,
         durationMin |-> PyRound60(duration_sec)]

\* extract_dive_data: the dives of the rows, or the exception of the first
\* row that raises
extract_dive_data(rows) ==
    IF \E i \in DOMAIN rows : Raises(rows[i])
    THEN [dives |-> <<>>, raised |-> TRUE]
    ELSE [dives |-> [i \in DOMAIN rows |-> RowDive(rows[i])], raised |-> FALSE]

\* no dashboard is loaded and no function has been applied
InitIdle ==
    /\ dives = <<>>
    /\ tripsData = <<>>
    /\ tripFiles = NoMap
    /\ divePhotos = NoMap
    /\ ops = 0
    /\ last = NoOp
    /\ alert = ""
    /\ call = NoCall
    /\ tripCollections = NoMap
    /\ picCaptions = {}
    /\ inj = NoInjection

\* extract_dive_data applied to a database
ExtractDiveData ==
    \E rows \in RawBatches :
        /\ call' = [fn |-> "extract_dive_data", rows |-> rows,
                    out |-> extract_dive_data(rows)]
        /\ UNCHANGED dashboard

NextExtract == ExtractDiveData

SpecExtract == InitIdle /\ [][NextExtract]_vars

----------------------------------------------------------------------------
(* Properties *)

\* the number of dives of ds at the normalized location of the name
CountAt(ds, name) ==
    Cardinality({i \in DOMAIN ds : NormLoc[ds[i].location] = NormLoc[name]})

\* every trip's dives field is the number of dives at its normalized location
TripCountsConsistent ==
    \A i \in DOMAIN tripsData :
        tripsData[i].dives = CountAt(dives, tripsData[i].name)

\* the trips handed to mergeNewDives count the dives handed with them
IncomingCountsRight ==
    \A i \in DOMAIN last.newTrips :
        last.newTrips[i].dives = CountAt(last.newDives, last.newTrips[i].name)

\* C1: the dataset mutations keep every trip's dives field equal to the
\* number of dives at the trip's normalized location: no mutation (given,
\* for a merge, incoming trips that count the incoming dives) leads from a
\* dataset where the counts are right to one where a count is wrong.
C1_TripCountsKept ==
    [][TripCountsConsistent /\ IncomingCountsRight' => TripCountsConsistent']_vars

\* C2: every trip returned by calculate_trip_stats has dives equal to the
\* number of input dives whose normalized location is the normalized trip
\* name; the aggregation runs when a dashboard is loaded (on the database's
\* dives) and when a database is imported (on the incoming dives).
C2_AggregationConsistent ==
    /\ last.op = "load" =>
          \A i \in DOMAIN tripsData :
              tripsData[i].dives = CountAt(dives, tripsData[i].name)
    /\ last.op = "merge" /\ last.newDives # last.pre.dives =>
          \A i \in DOMAIN last.newTrips :
              last.newTrips[i].dives = CountAt(last.newDives, last.newTrips[i].name)

\* the last call was mergeNewDives with the dataset's own dives and trips
SelfMerged ==
    /\ last.op = "merge"
    /\ last.newDives = last.pre.dives
    /\ last.newTrips = last.pre.tripsData

\* C3: merging a dataset into itself returns 0 and leaves the dive list and
\* the trip list unchanged.
C3_SelfMergeAddsNothing ==
    SelfMerged =>
        /\ last.ret = 0
        /\ dives = last.pre.dives
        /\ tripsData = last.pre.tripsData

\* a dataset of several dives and trips has been merged into itself
C3_Witness ==
    /\ SelfMerged
    /\ Len(last.pre.dives) >= 2
    /\ Len(last.pre.tripsData) >= 2

\* two dives have the same (number, date) key
SameKey(a, b) == a.number = b.number /\ a.date = b.date

\* the incoming dives that must be appended: those whose key is the key of
\* no existing dive and of no earlier incoming dive
MustAppend(old, nd) ==
    {i \in DOMAIN nd :
        /\ \A j \in DOMAIN old : ~SameKey(old[j], nd[i])
        /\ \A j \in 1..(i - 1) : ~SameKey(nd[j], nd[i])}

\* C4: mergeNewDives appends an incoming dive iff its key is neither the key
\* of an existing dive nor of an earlier incoming dive; the existing dives
\* keep their positions, the appended ones follow in incoming order; the
\* return value is their number.
C4_MergeAppendsNewKeys ==
    last.op = "merge" =>
        /\ dives = last.pre.dives
                     \o Pick(last.newDives, MustAppend(last.pre.dives, last.newDives))
        /\ last.ret = Cardinality(MustAppend(last.pre.dives, last.newDives))

\* a merge into a non-empty dataset that appended an incoming dive and
\* skipped a later incoming dive with the key of the appended one
C4_Witness ==
    /\ last.op = "merge"
    /\ last.pre.dives # <<>>
    /\ last.ret >= 1
    /\ Len(dives) = Len(last.pre.dives) + 1
    /\ \E i, j \in DOMAIN last.newDives :
            /\ i < j
            /\ SameKey(last.newDives[i], last.newDives[j])
            /\ \A k \in DOMAIN last.pre.dives :
                    ~SameKey(last.pre.dives[k], last.newDives[i])

\* the normalized location keys of a trip list
LocKeys(ts) == {NormLoc[ts[i].name] : i \in DOMAIN ts}

\* the number of trips of ts with the key
TripsAt(ts, key) == Cardinality({i \in DOMAIN ts : NormLoc[ts[i].name] = key})

\* after the merge every new incoming location has exactly one trip, and
\* the locations that had trips have as many as before
TripsMerged ==
    /\ \A key \in LocKeys(last.newTrips) \ LocKeys(last.pre.tripsData) :
            TripsAt(tripsData, key) = 1
    /\ \A key \in LocKeys(last.pre.tripsData) :
            TripsAt(tripsData, key) = TripsAt(last.pre.tripsData, key)
    /\ SubSeq(tripsData, 1, Len(last.pre.tripsData)) = last.pre.tripsData

\* C5 as claimed: for every incoming batch, each incoming trip whose
\* normalized location had no trip is in tripsData exactly once after
\* mergeNewDives, and no incoming trip whose location had a trip is appended.
C5_TripsMergedAlways == last.op = "merge" => TripsMerged

\* C5 amended: the same for every incoming batch of which at least one dive
\* is appended; when no dive is appended the trip list is left as it was.
C5_TripsMergedWhenDivesAdded ==
    last.op = "merge" =>
        IF last.ret > 0 THEN TripsMerged ELSE tripsData = last.pre.tripsData

\* a merge that appended a dive, appended a trip for a new location and
\* skipped an incoming trip whose location had a trip
C5_Witness ==
    /\ last.op = "merge"
    /\ last.ret > 0
    /\ LocKeys(last.newTrips) \ LocKeys(last.pre.tripsData) # {}
    /\ LocKeys(last.newTrips) \cap LocKeys(last.pre.tripsData) # {}
    /\ Len(tripsData) > Len(last.pre.tripsData)

\* C6: no two trips of the trip list have the same normalized location key.
C6_TripKeysUnique ==
    \A i, j \in DOMAIN tripsData :
        i # j => NormLoc[tripsData[i].name] # NormLoc[tripsData[j].name]

\* C7: after deleteTrip(idx), no dive that was at the trip's normalized
\* location remains in the dive list, and divePhotos holds no entry for the
\* number of such a dive.
C7_DeleteCascades ==
    last.op = "delete" =>
        \A i \in DOMAIN last.pre.dives :
            LET d == last.pre.dives[i]
            IN  NormLoc[d.location] = NormLoc[last.pre.tripsData[last.idx].name] =>
                    /\ \A j \in DOMAIN dives : dives[j] # d
                    /\ d.number \notin DOMAIN divePhotos

\* C8: the dives calculate_trip_stats groups into the trip 'Unknown' are the
\* dives that normLoc (used by delete, rename and photo matching) places at
\* the location of that trip.
C8_UnknownSameMembers ==
    last.op = "load" =>
        \A i \in DOMAIN tripsData :
            tripsData[i].name = s_Unknown =>
                {j \in DOMAIN dives : GroupKey(dives[j]) = s_Unknown}
                  = {j \in DOMAIN dives :
                        NormLoc[dives[j].location] = NormLoc[tripsData[i].name]}

\* C9: buildDivePhotoMap run for a trip right after a run for the same trip,
\* on the same dives and files, leaves the dive-number-to-media mapping as
\* the first run left it.
C9_MatchingIdempotent ==
    last.op = "build" /\ last.again => divePhotos = last.pre.divePhotos

\* a second run in a row, over a mapping that assigns files to two dives
C9_Witness ==
    /\ last.op = "build"
    /\ last.again
    /\ \E m, n \in DOMAIN divePhotos :
            m # n /\ divePhotos[m] # <<>> /\ divePhotos[n] # <<>>

\* the buffered window of the dive, 30 minutes around it, holds the timestamp
Buffered(d, stamp) ==
    /\ d.date # 0
    /\ d.time # NoTime
    /\ stamp >= (d.date * 1440 + d.time - 30) * 60000
    /\ stamp <= (d.date * 1440 + d.time + 30) * 60000 + d.durationSec * 1000

\* the positions in the dive list of the trip's dives whose window holds stamp
Holders(idx, stamp) ==
    {i \in DOMAIN dives :
        /\ NormLoc[dives[i].location] = NormLoc[tripsData[idx].name]
        /\ Buffered(dives[i], stamp)}

\* the files of divePhotos[n], none when the entry is missing
PhotosOf(n) == IF n \in DOMAIN divePhotos THEN Range(divePhotos[n]) ELSE {}

\* C10: after buildDivePhotoMap for a trip, a file of the trip whose
\* timestamp lies in the buffered window of some dives of the trip is held
\* by the first of these dives in dive-list order and by no dive of the trip
\* with another number.
C10_FirstMatchWins ==
    last.op \in {"build", "import"} /\ last.idx \in DOMAIN tripFiles =>
        \A k \in DOMAIN tripFiles[last.idx] :
            LET f == tripFiles[last.idx][k]
                holders == Holders(last.idx, f.lastModified)
            IN  f.lastModified # 0 /\ holders # {} =>
                    /\ f \in PhotosOf(dives[Min(holders)].number)
                    /\ \A i \in DOMAIN dives :
                          /\ NormLoc[dives[i].location] = NormLoc[tripsData[last.idx].name]
                          /\ dives[i].number # dives[Min(holders)].number
                          => f \notin PhotosOf(dives[i].number)

\* a file lies in the windows of two dives of the trip with different numbers
C10_Witness ==
    /\ last.op \in {"build", "import"}
    /\ last.idx \in DOMAIN tripFiles
    /\ \E k \in DOMAIN tripFiles[last.idx] :
          \E i, j \in Holders(last.idx, tripFiles[last.idx][k].lastModified) :
              dives[i].number # dives[j].number

----------------------------------------------------------------------------
(* Properties of the matcher and of the dive generator *)

\* dive i of the dive list is at the location of trip idx
MemberOf(i, idx) ==
    NormLoc[dives[i].location] = NormLoc[tripsData[idx].name]

\* the file is in the photo list of some dive of trip idx
AssignedIn(idx, f) ==
    \E i \in DOMAIN dives : MemberOf(i, idx) /\ f \in PhotosOf(dives[i].number)

\* C11: after buildDivePhotoMap for a trip, a file of the trip is in the
\* photo list of a dive of the trip iff it has a timestamp and some dive at
\* the trip's normalized location, with date and time, has
\* start - 30 min <= timestamp <= start + durationSec + 30 min.
C11_AssignedIffInWindow ==
    last.op = "import" =>
        \A k \in DOMAIN tripFiles[last.idx] :
            LET f == tripFiles[last.idx][k]
            IN  AssignedIn(last.idx, f)
                    <=> /\ f.lastModified # 0
                        /\ Holders(last.idx, f.lastModified) # {}

\* folder 1 imported for the trip of the dive of 09:00 (3000 s): the file of
\* 08:30 is under the dive, the file of 08:25 and the file without
\* timestamp are under none
C11_Witness ==
    /\ last.op = "import"
    /\ tripFiles[last.idx] = CameraFolder(1)
    /\ \E i \in DOMAIN dives :
            /\ MemberOf(i, last.idx)
            /\ dives[i].time = 540 /\ dives[i].durationSec = 3000
            /\ CameraFile(2, 510) \in PhotosOf(dives[i].number)
    /\ ~AssignedIn(last.idx, CameraFile(1, 505))
    /\ ~AssignedIn(last.idx, CameraFile(3, NoStamp))

\* the photo list of dive number n, empty when the entry is missing
PhotoList(n) == IF n \in DOMAIN divePhotos THEN divePhotos[n] ELSE <<>>

\* C12: after buildDivePhotoMap for a trip, the photo lists of the trip's
\* dives hold only files that are in the trip's file list now, each at most
\* once, whatever was assigned before the call.
C12_NoStaleAccumulation ==
    last.op \in {"build", "import"} /\ last.idx \in DOMAIN tripFiles =>
        \A i \in DOMAIN dives :
            MemberOf(i, last.idx) =>
                LET list == PhotoList(dives[i].number)
                IN  /\ Range(list) \subseteq Range(tripFiles[last.idx])
                    /\ \A a, b \in DOMAIN list : list[a] = list[b] => a = b

\* the matcher has run for a trip one of whose dives held, before the call,
\* a file that is no longer in the trip's file list, and has assigned a file
C12_Witness ==
    /\ last.op \in {"build", "import"}
    /\ last.idx \in DOMAIN tripFiles
    /\ \E i \in DOMAIN dives :
          /\ MemberOf(i, last.idx)
          /\ dives[i].number \in DOMAIN last.pre.divePhotos
          /\ Range(last.pre.divePhotos[dives[i].number])
                \ Range(tripFiles[last.idx]) # {}
          /\ PhotoList(dives[i].number) # <<>>

\* the positions in the dive list of the dives the photo map shows f under
DivesShowing(f) == {i \in DOMAIN dives : f \in PhotosOf(dives[i].number)}

\* the (number, date) keys of the dives of the list are pairwise distinct
KeysDistinct(ds) ==
    \A i, j \in DOMAIN ds : i # j => ~SameKey(ds[i], ds[j])

\* C13: a photo belongs to at most one dive: no file is associated, through
\* the photo map keyed by dive number, with two dives of the dive list, and
\* that already in the datasets whose (number, date) keys are distinct.
C13_PhotoOfOneDive ==
    KeysDistinct(dives) =>
        \A n \in DOMAIN divePhotos :
            \A k \in DOMAIN divePhotos[n] :
                Cardinality(DivesShowing(divePhotos[n][k])) <= 1

\* the last call was importSelected for a trip without dives, which runs
\* generateDivesFromPhotos
Generated == last.op = "import" /\ last.pre.tripsData[last.idx].dives = 0

\* the dives the last call appended
NewDives == SubSeq(dives, Len(last.pre.dives) + 1, Len(dives))

\* the timestamps of the trip's files, those without timestamp left out
Stamps(idx) ==
    {tripFiles[idx][k].lastModified : k \in DOMAIN tripFiles[idx]} \ {0}

\* the first timestamps of the clusters, read off the generated dives
Starts == {parseLocalMs(NewDives[k].date, NewDives[k].time) : k \in DOMAIN NewDives}

\* the cluster a timestamp falls in: the latest cluster start not after it
StartOf(t) == Max({a \in Starts : a <= t})

\* C14: in generateDivesFromPhotos the earliest photo starts the first
\* cluster, a photo joins the cluster of the photo before it iff it is at
\* most 75 minutes after that cluster's first photo, and starts a new
\* cluster otherwise: every photo lies within 75 minutes of the start of its
\* cluster, and every cluster but the first starts at the first photo more
\* than 75 minutes after the start of the cluster before.
C14_ClusterAnchoredAtFirst ==
    Generated =>
        /\ Starts \subseteq Stamps(last.idx)
        /\ Len(NewDives) = Cardinality(Starts)
        /\ \A t \in Stamps(last.idx) :
              /\ \E a \in Starts : a <= t
              /\ t <= StartOf(t) + 75 * 60 * 1000
        /\ \A b \in Starts :
              b # Min(Stamps(last.idx)) =>
                  /\ b > StartOf(b - 1) + 75 * 60 * 1000
                  /\ \A t \in Stamps(last.idx) :
                        t > StartOf(b - 1) + 75 * 60 * 1000 => t >= b

\* folder 3: the file 74 minutes after the first joined its cluster, the
\* file 76 minutes after the first (2 minutes after the second) started one
C14_Witness ==
    /\ Generated
    /\ tripFiles[last.idx] = CameraFolder(3)
    /\ Len(NewDives) = 2
    /\ NewDives[1].time = 510 /\ NewDives[1].durationSec = 74 * 60
    /\ NewDives[2].time = 586 /\ NewDives[2].durationSec = 0

\* the dive numbers present before the last call
OldNumbers == {last.pre.dives[i].number : i \in DOMAIN last.pre.dives}

\* C15: the k-th cluster in ascending time order becomes a dive numbered
\* max(existing dive numbers) + k (0 + k when there is no dive): the new
\* numbers exceed every number present before the call and are consecutive.
C15_NumbersFollowMax ==
    Generated =>
        /\ \A k \in DOMAIN NewDives :
              /\ NewDives[k].number = Max(OldNumbers \cup {0}) + k
              /\ \A n \in OldNumbers : NewDives[k].number > n
        /\ \A j, k \in DOMAIN NewDives :
              j < k =>
                  parseLocalMs(NewDives[j].date, NewDives[j].time)
                      < parseLocalMs(NewDives[k].date, NewDives[k].time)

\* two clusters have become dives 3 and 4 of a dataset whose only dive had
\* number 2
C15_Witness ==
    /\ Generated
    /\ OldNumbers = {2}
    /\ Len(NewDives) = 2
    /\ NewDives[1].number = 3
    /\ NewDives[2].number = 4

\* the timestamps of the cluster that starts at a
ClusterOf(a) == {t \in Stamps(last.idx) : StartOf(t) = a}

\* depth, pressures, gas, temperature and gradient factor of the dive are 0
Zeroed(d) ==
    /\ d.maxDepthM = 0 /\ d.maxDepthFt = 0
    /\ d.startPSI = 0 /\ d.endPSI = 0 /\ d.gasUsed = 0
    /\ d.o2Percent = 0 /\ d.avgTempC = 0 /\ d.avgDepthM = 0
    /\ d.endGF99 = 0

\* C16: generateDivesFromPhotos appends one photoOnly dive per cluster and
\* nothing else, with durationSec the cluster's last timestamp minus its
\* first and the measurements zero, and sets the trip's dives to the number
\* of clusters; files without timestamps give no dive, a single file gives
\* one dive of durationSec 0.
C16_OnePhotoDivePerCluster ==
    Generated =>
        /\ SubSeq(dives, 1, Len(last.pre.dives)) = last.pre.dives
        /\ Len(NewDives) = Cardinality(Starts)
        /\ Stamps(last.idx) = {} <=> NewDives = <<>>
        /\ Cardinality(Stamps(last.idx)) = 1 =>
              Len(NewDives) = 1 /\ NewDives[1].durationSec = 0
        /\ \A k \in DOMAIN NewDives :
              LET d == NewDives[k]
                  a == parseLocalMs(d.date, d.time)
              IN  /\ d.photoOnly
                  /\ d.durationSec * 1000 = Max(ClusterOf(a)) - a
                  /\ Zeroed(d)
        /\ NewDives # <<>> => tripsData[last.idx].dives = Len(NewDives)

\* folder 2: the file of 08:45 alone, and the files of 11:20 and 11:21,
\* have become two photoOnly dives that last 0 and 60 seconds
C16_Witness ==
    /\ Generated
    /\ tripFiles[last.idx] = CameraFolder(2)
    /\ Len(NewDives) = 2
    /\ NewDives[1].photoOnly /\ NewDives[1].durationSec = 0
    /\ NewDives[2].photoOnly /\ NewDives[2].durationSec = 60
    /\ tripsData[last.idx].dives = 2

\* the canonical location key: the normalized location, an empty location
\* having the key of 'Unknown'
CanonKey(s) == IF s = <<>> THEN NormLoc[s_Unknown] ELSE NormLoc[s]

\* C17: after editTripLocation(idx) with a new name, the trip has the new
\* name, every dive that was a member of the trip (its location had the
\* trip's canonical key; a dive without location is a member of 'Unknown')
\* has the new name as location, and the other dives keep their location.
C17_RenameMovesMembers ==
    last.op = "edit" =>
        LET old == last.pre.tripsData[last.idx].name
            new == tripsData[last.idx].name
        IN  /\ new # old
            /\ DOMAIN dives = DOMAIN last.pre.dives
            /\ \A i \in DOMAIN dives :
                  dives[i].location =
                      IF CanonKey(last.pre.dives[i].location) = CanonKey(old)
                      THEN new
                      ELSE last.pre.dives[i].location

\* trip j of the trip list was appended by the last merge, from an incoming
\* trip that had no colour of its own
AppendedUncoloured(j) ==
    /\ j > Len(last.pre.tripsData)
    /\ \E k \in DOMAIN last.newTrips :
          /\ last.newTrips[k].name = tripsData[j].name
          /\ last.newTrips[k].color \in {"", DefaultColor}

\* C18: a trip appended by mergeNewDives without a colour of its own, while
\* fewer than 10 trips exist, has a palette colour that no trip before it in
\* the trip list has.
C18_NextUnusedColour ==
    last.op = "merge" =>
        \A j \in DOMAIN tripsData :
            AppendedUncoloured(j) /\ j <= Len(tripColors) =>
                /\ tripsData[j].color \in Range(tripColors)
                /\ \A i \in 1..(j - 1) : tripsData[i].color # tripsData[j].color

C20_KeysStayDistinct ==
    [][KeysDistinct(dives) /\ last'.op \in {"merge", "import"}
          => KeysDistinct(dives')]_vars

\* a merge into a dataset with distinct keys that holds a generated dive has
\* appended a dive with the number of an existing dive and another date
C20_Witness ==
    /\ last.op = "merge"
    /\ KeysDistinct(last.pre.dives)
    /\ \E i \in DOMAIN last.pre.dives : last.pre.dives[i].photoOnly
    /\ \E i \in DOMAIN last.pre.dives, j \in DOMAIN dives :
          /\ j > Len(last.pre.dives)
          /\ dives[j].number = last.pre.dives[i].number
          /\ dives[j].date # last.pre.dives[i].date
    /\ KeysDistinct(dives)

----------------------------------------------------------------------------
(* calculate_trip_stats applied to a dive list *)

MaxStatDives == 4   \* dives in the list
MaxStatDay == 2     \* days the dives are logged on

\* a dive of the list: only its location and its date (0: none) matter
StatDive(loc, day) ==
    Dive(1, day, ExportStart(1), ExportDuration, loc, FALSE, Measured)

StatDives ==
    {StatDive(loc, day) : loc \in {s_Bonaire, s_Curaco, <<>>},
                          day \in 0..MaxStatDay}

\* the lists extract_dive_data hands over, ORDER BY d.DiveDate: the lists of
\* at most k dives in ascending order of date, none before the given day
RECURSIVE StatListsFrom(_, _)
StatListsFrom(k, day) ==
    IF k = 0 THEN {<<>>}
    ELSE {<<>>} \cup
         UNION {{<<d>> \o rest : rest \in StatListsFrom(k - 1, d.date)} :
                d \in {x \in StatDives : x.date >= day}}

StatLists == StatListsFrom(MaxStatDives, 0) \ {<<>>}

\* calculate_trip_stats applied to a list, once
CalculateTripStats ==
    \E ds \in StatLists :
        /\ call = NoCall
        /\ call' = [dives |-> ds, fn |-> "calculate_trip_stats",
                    out |-> calculate_trip_stats(ds)]
        /\ UNCHANGED dashboard

NextStats == CalculateTripStats

SpecStats == InitIdle /\ [][NextStats]_vars

----------------------------------------------------------------------------

(* Properties of extract_dive_data *)

Extracted == call.fn = "extract_dive_data"

\* C21: every dive extract_dive_data produces has gasUsed = startPSI - endPSI
\* when both pressures are recorded (non-zero) and 0 when one is missing, and
\* gasUsed >= 0 whenever both are recorded.
C21_GasUsed ==
    Extracted /\ ~call.out.raised =>
        \A i \in DOMAIN call.out.dives :
            LET d == call.out.dives[i]
            IN  IF d.startPSI # 0 /\ d.endPSI # 0
                THEN d.gasUsed = d.startPSI - d.endPSI /\ d.gasUsed >= 0
                ELSE d.gasUsed = 0

\* C22: every dive extract_dive_data produces with both time and endTime
\* present has durationSec equal to the difference endTime - time (clock
\* times are minutes of the day, the duration is in seconds).
C22_DurationIsEndMinusStart ==
    Extracted /\ ~call.out.raised =>
        \A i \in DOMAIN call.out.dives :
            LET d == call.out.dives[i]
            IN  d.time # NoTime /\ d.endTime # NoTime =>
                    d.durationSec = (d.endTime - d.time) * 60

\* the row with every unparsable column replaced by a missing one
Degraded(row) ==
    [row EXCEPT
        !.DiveNumber = IF @ = Bad THEN Null ELSE @,
        !.Depth = IF @ = Bad THEN Null ELSE @,
        !.DiveLengthTime = IF @ = Bad THEN Null ELSE @,
        !.TankProfileData = IF @.StartPressurePSI = Bad THEN Tank(0, 0) ELSE @,
        !.calculated_values_from_samples = IF @ = BadBlob THEN NoBlob ELSE @]

\* C23: a malformed row does not abort the batch: extract_dive_data raises
\* nothing and returns a dive for every row, the dive of the row with its
\* malformed field degraded to the zero/empty default.
C23_MalformedRowKeepsBatch ==
    Extracted =>
        /\ ~call.out.raised
        /\ DOMAIN call.out.dives = DOMAIN call.rows
        /\ \A i \in DOMAIN call.rows :
                call.out.dives[i] = RowDive(Degraded(call.rows[i]))

----------------------------------------------------------------------------
(* The depth profile of a dive: generateDepthProfile, interpolateDepth *)

\* Depths are in tenths of the unit, sample times x in minutes, query times
\* in tenths of a minute.
NaN == -1           \* the sample that is no number (0 / 0)

\* a number of the script: NaN, or the fraction num / den of tenths
Num(num, den) == [num |-> num, den |-> den, nan |-> FALSE]
NotANumber == [num |-> 0, den |-> 1, nan |-> TRUE]

Point(x, y) == [x |-> x, y |-> y]

\* Math.round(t / 60) and Math.round(v): a half rounds up
JsRound60(sec) == (sec + 30) \div 60

\* Math.round(Math.sin(t / 60) * 2 * 10) for the sample times t
Sin20(t) ==
    CASE t = 30 -> 10
      [] t = 60 -> 17
      [] t = 90 -> 20
      [] t = 120 -> 18
      [] t = 150 -> 12
      [] t = 180 -> 3
      [] OTHER -> 0

\* the depth sampled t seconds into the dive, for the dives of the model: a
\* dive that is over before the second sample, or a dive without measured
\* depths (maxDepth = 0 and avgDepth = 0: descentTime = 0, ascentTime = 0,
\* safetyStopTime = 0, bottomTime = duration)
SampleDepth(dive, t) ==
    IF t = 0
    THEN IF dive.maxDepthM = 0 THEN NaN ELSE 0     \* (0 / descentTime) * maxDepth
    ELSE IF 10 * t <= 7 * dive.durationSec THEN 0  \* maxDepth, avgDepth * 0.6 * progress
    ELSE Max({0, Sin20(t)})                        \* avgDepth * 1.1 + Math.sin(t / 60) * 2

\* generateDepthProfile(dive): a point every 30 seconds from 0 to duration
generateDepthProfile(dive) ==
    [k \in 1..(dive.durationSec \div 30 + 1) |->
        Point(JsRound60((k - 1) * 30), SampleDepth(dive, (k - 1) * 30))]

\* interpolateDepth(depthData, timeMin)
interpolateDepth(depthData, timeMin) ==
    LET hits == {i \in 1..(Len(depthData) - 1) :
                    /\ timeMin >= 10 * depthData[i].x
                    /\ timeMin <= 10 * depthData[i + 1].x}
        i == Min(hits)
        a == depthData[i]
        b == depthData[i + 1]
        dx == 10 * (b.x - a.x)
        final == depthData[Len(depthData)].y
    IN  IF hits # {}
        THEN IF dx = 0 \/ a.y = NaN \/ b.y = NaN
             THEN NotANumber
             ELSE Num(a.y * dx + (timeMin - 10 * a.x) * (b.y - a.y), dx)
        ELSE IF depthData = <<>> THEN Num(0, 1)
        ELSE IF final = NaN THEN NotANumber
        ELSE Num(final, 1)

MaxPoints == 3      \* points of a profile handed to interpolateDepth
MaxPointX == 2      \* minutes of the last sample
MaxSamples == 4     \* 30-second samples after the first of a generated profile

PointDepths == {0, 50, 180}

\* profiles: sample times ascending
PointLists ==
    UNION {{p \in [1..k -> {Point(x, y) : x \in 0..MaxPointX, y \in PointDepths}] :
                \A i \in 1..(k - 1) : p[i].x <= p[i + 1].x} :
           k \in 1..MaxPoints}

\* query times: half a minute before the first minute to a minute past the last
QueryTimes == {5 * k : k \in (-1)..(2 * MaxPointX + 2)}

\* dives whose profile is generated: photo-only dives of 0 to MaxSamples half
\* minutes, and a measured dive of no duration
ProfileDives ==
    {Dive(1, 1, ExportStart(1), 30 * k, s_Curaco, TRUE, Unmeasured) : k \in 0..MaxSamples}
    \cup {Dive(1, 1, ExportStart(1), 0, s_Curaco, FALSE, Measured)}

\* interpolateDepth applied to a profile and a time
InterpolateDepth ==
    \E depthData \in PointLists, timeMin \in QueryTimes :
        /\ call = NoCall
        /\ call' = [fn |-> "interpolateDepth",
                    out |-> interpolateDepth(depthData, timeMin),
                    depthData |-> depthData, timeMin |-> timeMin]
        /\ UNCHANGED dashboard

\* interpolateDepth(generateDepthProfile(dive), timeMin)
ProfileDepth ==
    \E dive \in ProfileDives, timeMin \in QueryTimes :
        /\ call = NoCall
        /\ call' = [fn |-> "interpolateDepth",
                    out |-> interpolateDepth(generateDepthProfile(dive), timeMin),
                    depthData |-> generateDepthProfile(dive),
                    timeMin |-> timeMin]
        /\ UNCHANGED dashboard

NextProfile == InterpolateDepth \/ ProfileDepth

SpecProfile == InitIdle /\ [][NextProfile]_vars

----------------------------------------------------------------------------

(* Properties of calculate_trip_stats *)

Aggregated == call.fn = "calculate_trip_stats"

\* the name of the trip a dive is counted in
ShownName(d) == IF GroupKey(d) = s_Curacao THEN s_CuraCao ELSE GroupKey(d)

\* the last date of the dives of the trip, and the place of its first dive
LastDate(ds, name) ==
    Max({ds[i].date : i \in {j \in DOMAIN ds : ShownName(ds[j]) = name}})
FirstMet(ds, name) ==
    Min({j \in DOMAIN ds : ShownName(ds[j]) = name})

\* C24: the trips calculate_trip_stats returns are in ascending order of
\* their last dive date, and the order is a function of the dive list alone:
\* trips with equal last dates stay in the order their locations first
\* appear in the list.
C24_TripsByLastDate ==
    Aggregated =>
        \A i, j \in DOMAIN call.out :
            i < j =>
                LET a == LastDate(call.dives, call.out[i].name)
                    b == LastDate(call.dives, call.out[j].name)
                IN  /\ a <= b
                    /\ a = b => FirstMet(call.dives, call.out[i].name)
                                    < FirstMet(call.dives, call.out[j].name)

\* three trips, two of them with the same last date, returned in another
\* order than the one their locations were first met in
C24_Witness ==
    /\ Aggregated
    /\ Len(call.out) = 3
    /\ \E i \in 1..2 : LastDate(call.dives, call.out[i].name)
                        = LastDate(call.dives, call.out[i + 1].name)
    /\ \E i \in 1..2 : FirstMet(call.dives, call.out[i].name)
                        > FirstMet(call.dives, call.out[i + 1].name)

----------------------------------------------------------------------------
(* durationMin of a dive of the extractor and of a dive made from photos *)

MaxDurationSec == 180   \* the longest duration compared

\* durationMin as extract_dive_data and as generateDivesFromPhotos compute it
\* for a dive of the same durationSec
DurationMin ==
    \E sec \in 0..MaxDurationSec :
        /\ call = NoCall
        /\ call' = [durationSec |-> sec, fn |-> "durationMin",
                    generateDivesFromPhotos |-> JsRound60(sec),
                    extract_dive_data |-> PyRound60(sec)]
        /\ UNCHANGED dashboard

NextDuration == DurationMin

SpecDuration == InitIdle /\ [][NextDuration]_vars

----------------------------------------------------------------------------

(* Properties of interpolateDepth *)

Interpolated == call.fn = "interpolateDepth"

\* the number is the depth y
IsDepth(v, y) == ~v.nan /\ v.num = y * v.den

\* C25: for a non-empty profile, interpolateDepth returns the first sample's
\* depth for a time before the first sample and the last sample's depth for
\* a time after the last sample, and for every time a defined, non-negative
\* number (never NaN), also on the profile generated for a dive of zero
\* duration or zero max depth.
C25_ClampedAndDefined ==
    Interpolated /\ call.depthData # <<>> =>
        LET first == call.depthData[1]
            final == call.depthData[Len(call.depthData)]
        IN  /\ call.timeMin < 10 * first.x => IsDepth(call.out, first.y)
            /\ call.timeMin > 10 * final.x => IsDepth(call.out, final.y)
            /\ ~call.out.nan
            /\ call.out.num >= 0

----------------------------------------------------------------------------
(* Properties of generated dives and their photos *)

\* no dive was at the location of the trip before the last call
NoPriorDives ==
    \A i \in DOMAIN last.pre.dives :
        NormLoc[last.pre.dives[i].location]
            # NormLoc[last.pre.tripsData[last.idx].name]

\* C26: after generateDivesFromPhotos on a trip with no prior dives at its
\* location, every file with a timestamp is in the photo list of the dive
\* made from its own cluster, and every generated dive has at least one
\* photo, also when a cluster starts less than 30 minutes after the last
\* photo of the cluster before.
C26_PhotosWithOwnCluster ==
    Generated /\ NoPriorDives =>
        /\ \A k \in DOMAIN NewDives : PhotoList(NewDives[k].number) # <<>>
        /\ \A j \in DOMAIN tripFiles[last.idx] :
              LET f == tripFiles[last.idx][j]
              IN  f.lastModified # 0 =>
                    \E k \in DOMAIN NewDives :
                        /\ parseLocalMs(NewDives[k].date, NewDives[k].time)
                                = StartOf(f.lastModified)
                        /\ f \in Range(PhotoList(NewDives[k].number))

\* the photo list of dive number n before the last call
PrePhotoList(n) ==
    IF n \in DOMAIN last.pre.divePhotos THEN last.pre.divePhotos[n] ELSE <<>>

\* the dive is counted in a trip other than the trip of the last call
OfAnotherTrip(d) ==
    /\ ShownName(d) # last.pre.tripsData[last.idx].name
    /\ \E b \in DOMAIN last.pre.tripsData :
            b # last.idx /\ last.pre.tripsData[b].name = ShownName(d)

\* C27: buildDivePhotoMap, removePictures and deleteTrip for one trip leave
\* the photo list of every dive of another trip as it was, also when a dive
\* of each trip has the same number and when both trips have the same
\* normalized name.
C27_OtherTripsPhotosKept ==
    /\ last.op \in {"import", "build", "remove", "delete"}
    /\ KeysDistinct(last.pre.dives)
    => \A i \in DOMAIN last.pre.dives :
            OfAnotherTrip(last.pre.dives[i]) =>
                PhotoList(last.pre.dives[i].number)
                    = PrePhotoList(last.pre.dives[i].number)

----------------------------------------------------------------------------
(* Properties of deleteTrip on the media of the trips *)

\* the entry of a map keyed by trip index, empty when it is missing
Entry(m, k) == IF k \in DOMAIN m THEN m[k] ELSE <<>>

\* the file names that hold a caption under trip index k
CaptionsOf(caps, k) == {key[2] : key \in {c \in caps : c[1] = k}}

\* C28: after deleteTrip(idx) the media kept per trip index (tripFiles,
\* tripCollections, the captions) of every remaining trip are still that
\* trip's: the entries of the trips above idx are found one index lower,
\* those below idx where they were, and no entry is left outside the trips.
C28_MediaFollowTrip ==
    [][last'.op = "delete" =>
        /\ \A k \in (DOMAIN tripsData) \ {last'.idx} :
              LET k2 == IF k > last'.idx THEN k - 1 ELSE k
              IN  /\ Entry(tripFiles', k2) = Entry(tripFiles, k)
                  /\ Entry(tripCollections', k2) = Entry(tripCollections, k)
                  /\ CaptionsOf(picCaptions', k2) = CaptionsOf(picCaptions, k)
        /\ DOMAIN tripFiles' \subseteq DOMAIN tripsData'
        /\ DOMAIN tripCollections' \subseteq DOMAIN tripsData'
        /\ {c[1] : c \in picCaptions'} \subseteq DOMAIN tripsData'
    ]_vars

----------------------------------------------------------------------------
(* Properties of injectAll *)

\* the pictures of the manifest in its order, as (trip index, name)
RECURSIVE AllFiles(_)
AllFiles(pics) ==
    IF pics = <<>> THEN <<>>
    ELSE [k \in DOMAIN Head(pics).files |->
              <<Head(pics).idx, Head(pics).files[k].name>>]
         \o AllFiles(Tail(pics))

\* the pictures before the one nextFile is at
Before(j) ==
    TotalFiles(SubSeq(j.pics, 1, j.ti - 1))
        + (IF j.ti \in DOMAIN j.pics THEN j.fi - 1 ELSE 0)

\* the pictures are handled one at a time in the order of the manifest: the
\* handled ones are the first of the manifest, all those before the picture
\* injectAll is at, and finishPicInjection has run only after the last
InOrder ==
    inj.pc # "none" =>
        /\ inj.handled = SubSeq(AllFiles(inj.pics), 1, Len(inj.handled))
        /\ inj.loaded = Len(inj.handled)
        /\ inj.pc \in {"nextFile", "load_pic_file"} => Len(inj.handled) = Before(inj)
        /\ inj.finished <= 1
        /\ inj.finished = 1 =>
              /\ inj.handled = AllFiles(inj.pics)
              /\ inj.loaded = inj.totalFiles

\* C29: injectAll handles the pictures of the manifest one at a time, trip
\* by trip in manifest order, each injected or skipped before the next is
\* requested; the loaded counter ends equal to the total, and
\* finishPicInjection eventually runs, exactly once, after the last file.
C29_InjectionCompletes ==
    /\ []InOrder
    /\ (inj.pc # "none") ~> (inj.finished = 1 /\ inj.pc = "done")

\* a manifest of two trips has been injected: two pictures handled, one of
\* them skipped, and finishPicInjection has run
C29_Witness ==
    /\ inj.pc = "done"
    /\ inj.finished = 1
    /\ Len(inj.pics) = 2
    /\ inj.loaded = 2
    /\ divePhotos # NoMap
    /\ Cardinality(DOMAIN tripFiles) = 1

----------------------------------------------------------------------------
(* Properties of durationMin *)

\* C30: a dive of extract_dive_data and a dive of generateDivesFromPhotos
\* with equal durationSec have equal durationMin: both round durationSec / 60
\* to the nearest integer and treat an exact half minute alike.
C30_SameDurationMin ==
    call.fn = "durationMin" =>
        /\ call.extract_dive_data = call.generateDivesFromPhotos
        /\ \A m \in {call.extract_dive_data, call.generateDivesFromPhotos} :
              /\ 60 * m - call.durationSec <= 30
              /\ call.durationSec - 60 * m <= 30

====
